---- MODULE Spec2Model ----
(***************************************************************************)
(* Model of src/app.py: the POST /natal request handler of the             *)
(* astro-microservice, its input parser (parse_inputs) and its angle       *)
(* helpers (norm360, to_sign).                                             *)
(*                                                                         *)
(* Numbers.  Python floats are modelled as integers counting "ticks":      *)
(*   - a longitude is a number of ticks, Deg ticks to the degree; the      *)
(*     float format keeps MantBits significant bits, so a sum is rounded   *)
(*     (half to even) to the spacing of its binade (FRound), as an IEEE    *)
(*     addition is;                                                        *)
(*   - an hour value is a number of HourUnit-ths of an hour, exact for     *)
(*     every input of the model;                                           *)
(*   - a JSON number is its value times 1000 ("milli").                    *)
(* Strings are sequences of one-character strings.                         *)
(***************************************************************************)
EXTENDS Integers, Sequences, FiniteSets, TLC

\* ---------------------------------------------------------------- bounds
\* Binary digits of resolution below 0.0001 degree.
FracBits == 6
\* Significant bits of the modelled float format (53 in a Python float).
MantBits == 26

Q4 == 2 ^ FracBits           \* ticks in 0.0001 degree
Deg == 10000 * Q4            \* ticks in one degree
HourUnit == 3600 * 5         \* hour units in one hour (1 second = 5 units)

\* ------------------------------------------------------------ characters
Digits == {"0", "1", "2", "3", "4", "5", "6", "7", "8", "9"}

DigitVal(c) ==
    CASE c = "0" -> 0 [] c = "1" -> 1 [] c = "2" -> 2 [] c = "3" -> 3
      [] c = "4" -> 4 [] c = "5" -> 5 [] c = "6" -> 6 [] c = "7" -> 7
      [] c = "8" -> 8 [] c = "9" -> 9

DigitChar(n) ==
    CASE n = 0 -> "0" [] n = 1 -> "1" [] n = 2 -> "2" [] n = 3 -> "3"
      [] n = 4 -> "4" [] n = 5 -> "5" [] n = 6 -> "6" [] n = 7 -> "7"
      [] n = 8 -> "8" [] n = 9 -> "9"

\* str.split(sep): the parts between the separators, empty parts included.
RECURSIVE SplitFrom(_, _, _, _)
SplitFrom(s, sep, i, cur) ==
    IF i > Len(s) THEN <<cur>>
    ELSE IF s[i] = sep THEN <<cur>> \o SplitFrom(s, sep, i + 1, <<>>)
    ELSE SplitFrom(s, sep, i + 1, Append(cur, s[i]))

Split(s, sep) == SplitFrom(s, sep, 1, <<>>)

\* str.strip() for the blank character.
RECURSIVE Strip(_)
Strip(s) ==
    IF s = <<>> THEN s
    ELSE IF Head(s) = " " THEN Strip(Tail(s))
    ELSE IF s[Len(s)] = " " THEN Strip(SubSeq(s, 1, Len(s) - 1))
    ELSE s

AllDigits(s) == s # <<>> /\ \A i \in 1..Len(s) : s[i] \in Digits

RECURSIVE DigitsVal(_)
DigitsVal(s) ==
    IF s = <<>> THEN 0 ELSE 10 * DigitsVal(SubSeq(s, 1, Len(s) - 1)) + DigitVal(s[Len(s)])

\* int(str): blanks stripped, an optional sign, then one or more digits.
\* [ok |-> FALSE] is the ValueError.
ParseInt(part) ==
    LET t == Strip(part)
        signed == t # <<>> /\ Head(t) \in {"+", "-"}
        ds == IF signed THEN Tail(t) ELSE t
    IN  IF AllDigits(ds)
        THEN [ok |-> TRUE, v |-> IF signed /\ Head(t) = "-" THEN -DigitsVal(ds) ELSE DigitsVal(ds)]
        ELSE [ok |-> FALSE, v |-> 0]

\* Index of the first "." of s, 0 when there is none.
RECURSIVE DotAt(_, _)
DotAt(s, i) ==
    IF i > Len(s) THEN 0 ELSE IF s[i] = "." THEN i ELSE DotAt(s, i + 1)

\* The fraction digits fs as thousandths, the resolution of the model:
\* digits past the third are dropped.
FracMilli(fs) ==
    CASE Len(fs) = 0 -> 0
      [] Len(fs) = 1 -> 100 * DigitsVal(fs)
      [] Len(fs) = 2 -> 10 * DigitsVal(fs)
      [] OTHER -> DigitsVal(SubSeq(fs, 1, 3))

\* float(str): blanks stripped, an optional sign, digits with at most one
\* decimal point (the exponent, "inf" and "nan" forms are in none of the
\* model's inputs).  The result is the value in thousandths;
\* [ok |-> FALSE] is the ValueError.
ParseFloat(str) ==
    LET t == Strip(str)
        signed == t # <<>> /\ Head(t) \in {"+", "-"}
        body == IF signed THEN Tail(t) ELSE t
        dot == DotAt(body, 1)
        ip == IF dot = 0 THEN body ELSE SubSeq(body, 1, dot - 1)
        fp == IF dot = 0 THEN <<>> ELSE SubSeq(body, dot + 1, Len(body))
        wellFormed ==
            /\ \A i \in 1..Len(ip) : ip[i] \in Digits
            /\ \A i \in 1..Len(fp) : fp[i] \in Digits
            /\ Len(ip) + Len(fp) > 0
        mag == 1000 * DigitsVal(ip) + FracMilli(fp)
    IN  IF wellFormed
        THEN [ok |-> TRUE, v |-> IF signed /\ Head(t) = "-" THEN -mag ELSE mag]
        ELSE [ok |-> FALSE, v |-> 0]

\* The decimal digits of a natural number.
RECURSIVE NatStr(_)
NatStr(n) ==
    IF n < 10 THEN <<DigitChar(n)>> ELSE Append(NatStr(n \div 10), DigitChar(n % 10))

\* ------------------------------------------------------------ JSON values
\* A JSON value of a field: a string, a number (in thousandths) or null.
JStr(s) == [t |-> "str", s |-> s, v |-> 0]
JNum(milli) == [t |-> "num", s |-> <<>>, v |-> milli]
JNull == [t |-> "null", s |-> <<>>, v |-> 0]

\* str(value), as parse_inputs applies it to the date and time fields.
PyStr(val) ==
    CASE val.t = "str" -> val.s
      [] val.t = "null" -> <<"N", "o", "n", "e">>
      [] OTHER ->
           LET a == IF val.v < 0 THEN -val.v ELSE val.v
               sign == IF val.v < 0 THEN <<"-">> ELSE <<>>
               f == a % 1000
               fs == IF f = 0 THEN <<>>
                     ELSE IF f % 100 = 0 THEN <<".", DigitChar(f \div 100)>>
                     ELSE IF f % 10 = 0
                          THEN <<".", DigitChar(f \div 100), DigitChar((f \div 10) % 10)>>
                     ELSE <<".", DigitChar(f \div 100), DigitChar((f \div 10) % 10),
                            DigitChar(f % 10)>>
           IN  sign \o NatStr(a \div 1000) \o fs

\* float(value): "ok", or the exception raised.
PyFloat(val) ==
    CASE val.t = "num" -> [res |-> "ok", v |-> val.v]
      [] val.t = "null" -> [res |-> "TypeError", v |-> 0]
      [] OTHER ->
           LET p == ParseFloat(val.s)
           IN  IF p.ok THEN [res |-> "ok", v |-> p.v] ELSE [res |-> "ValueError", v |-> 0]

\* ------------------------------------------------------------ float model
Abs(v) == IF v < 0 THEN -v ELSE v

\* Spacing of the representable values around magnitude a.
RECURSIVE Ulp(_)
Ulp(a) == IF a < 2 ^ MantBits THEN 1 ELSE 2 * Ulp(a \div 2)

\* v >= 0 rounded to a multiple of g, a tie going to the even multiple.
RoundHalfEven(v, g) ==
    LET q == v \div g
        r == v % g
    IN  IF 2 * r < g THEN q * g
        ELSE IF 2 * r > g THEN (q + 1) * g
        ELSE IF q % 2 = 0 THEN q * g ELSE (q + 1) * g

RoundToGrid(v, g) == IF v < 0 THEN -RoundHalfEven(-v, g) ELSE RoundHalfEven(v, g)

\* The float nearest to the real value v.
FRound(v) == RoundToGrid(v, Ulp(Abs(v)))

\* C fmod: the remainder with the sign of x (exact in floating point).
FMod(x, w) == IF x < 0 THEN -((-x) % w) ELSE x % w

\* Python's float x % w for w > 0: fmod, then w added to a negative
\* remainder; that addition is a float addition and rounds.
PyFloatMod(x, w) ==
    LET m == FMod(x, w)
    IN  IF m < 0 THEN FRound(m + w) ELSE m

\* round(v, 4): to the nearest 0.0001, a tie going to the even digit.
Round4(v) == RoundToGrid(v, Q4)

\* ---------------------------------------------------------------- helpers
SIGNS ==
    <<"Aries", "Taurus", "Gemini", "Cancer", "Leo", "Virgo",
      "Libra", "Scorpio", "Sagittarius", "Capricorn", "Aquarius", "Pisces">>

norm360(x) == PyFloatMod(x, 360 * Deg)

\* to_sign: [ok |-> TRUE, sign, deg, idx], or the IndexError of SIGNS[idx].
to_sign(lon) ==
    LET l == norm360(lon)
        idx == l \div (30 * Deg)
        deg_in_sign == l - idx * (30 * Deg)
    IN  IF idx + 1 \in DOMAIN SIGNS
        THEN [ok |-> TRUE, sign |-> SIGNS[idx + 1], deg |-> deg_in_sign, idx |-> idx]
        ELSE [ok |-> FALSE, sign |-> "IndexError", deg |-> deg_in_sign, idx |-> idx]

\* ------------------------------------------------------------ parse_inputs
Required == <<"date", "time", "lat", "lon">>

\* The error messages of the handler: the text and, for the missing-field
\* message, the field names joined into it.
Err(text, fields) == [text |-> text, fields |-> fields]

\* Mutant of MissingOf: only the first missing field is reported.
MissingFirst(obj) ==
    LET all == SelectSeq(Required, LAMBDA k : k \notin DOMAIN obj)
    IN  IF all = <<>> THEN all ELSE <<all[1]>>

\* [k for k in ("date", "time", "lat", "lon") if k not in payload]
MissingOf(obj) == SelectSeq(Required, LAMBDA k : k \notin DOMAIN obj)

IntParts(str, sep) ==
    LET parts == Split(str, sep)
    IN  [i \in 1..Len(parts) |-> ParseInt(parts[i])]

\* Mutant of UnpackInts: extra parts are ignored instead of refused.
UnpackIntsAtLeast(str, sep, n) ==
    LET ps == IntParts(str, sep)
    IN  IF Len(ps) >= n /\ \A i \in 1..n : ps[i].ok
        THEN [ok |-> TRUE, v |-> [i \in 1..n |-> ps[i].v]]
        ELSE [ok |-> FALSE, v |-> [i \in 1..n |-> 0]]

\* A list comprehension of int() unpacked into exactly n names.
UnpackInts(str, sep, n) ==
    LET ps == IntParts(str, sep)
    IN  IF Len(ps) = n /\ \A i \in 1..n : ps[i].ok
        THEN [ok |-> TRUE, v |-> [i \in 1..n |-> ps[i].v]]
        ELSE [ok |-> FALSE, v |-> [i \in 1..n |-> 0]]

NoInputs == [y |-> 0, m |-> 0, d |-> 0, hour_utc |-> 0, lat |-> 0, lon |-> 0, tz |-> 0]

ParseFail(res, err) == [res |-> res, err |-> err, inp |-> NoInputs]

\* Mutant of HourUtc: the offset is added (local = UTC - tz).
HourUtcAdded(hh, mm, tz) == hh * HourUnit + mm * (HourUnit \div 60) + tz * (HourUnit \div 1000)

\* The hour of day in UT: hh + mm / 60.0 - tz, in hour units.
HourUtc(hh, mm, tz) == hh * HourUnit + mm * (HourUnit \div 60) - tz * (HourUnit \div 1000)

\* parse_inputs(payload): the inputs, or the exception that leaves it.
\* data is the handler's `data`: a JSON object (a function of its keys) or a
\* non-zero JSON number.
parse_inputs(data) ==
    IF data.t # "obj" THEN ParseFail("TypeError", Err("argument of type 'int' is not iterable", <<>>))
    ELSE
    LET obj == data.f
        missing == MissingOf(obj)
        date == UnpackInts(PyStr(obj["date"]), "-", 3)
        time == UnpackInts(PyStr(obj["time"]), ":", 2)
        lat == PyFloat(obj["lat"])
        lon == PyFloat(obj["lon"])
        tz == IF "tz_offset" \in DOMAIN obj THEN PyFloat(obj["tz_offset"])
              ELSE [res |-> "ok", v |-> 0]
    IN  IF missing # <<>> THEN ParseFail("ValueError", Err("Missing required field(s): ", missing))
        ELSE IF ~date.ok THEN ParseFail("ValueError", Err("Invalid 'date' format. Use YYYY-MM-DD.", <<>>))
        ELSE IF ~time.ok THEN ParseFail("ValueError", Err("Invalid 'time' format. Use HH:MM (24h).", <<>>))
        ELSE IF lat.res # "ok" \/ lon.res # "ok"
             THEN ParseFail("ValueError", Err("'lat' and 'lon' must be numbers.", <<>>))
        ELSE IF tz.res = "ValueError"
             THEN ParseFail("ValueError", Err("could not convert string to float", <<>>))
        ELSE IF tz.res = "TypeError"
             THEN ParseFail("TypeError", Err("float() argument must be a string or a real number", <<>>))
        ELSE [res |-> "ok", err |-> Err("", <<>>),
              inp |-> [y |-> date.v[1], m |-> date.v[2], d |-> date.v[3],
                       hour_utc |-> HourUtc(time.v[1], time.v[2], tz.v),
                       lat |-> lat.v, lon |-> lon.v, tz |-> tz.v]]

\* ----------------------------------------------------------------- inputs
\* The request bodies of the model.  Base is the request of the service's
\* documentation; the others change one field of it, leave required fields
\* out, or are not JSON objects at all.
DateIso == <<"1", "9", "9", "5", "-", "0", "6", "-", "1", "5">>
DateSlash == <<"1", "9", "9", "5", "/", "0", "6", "/", "1", "5">>
TimeHM == <<"0", "3", ":", "1", "5">>
TimeHMS == <<"0", "3", ":", "1", "5", ":", "3", "0">>
TimeNoColon == <<"0", "3", "1", "5">>
TimeOutOfRange == <<"2", "5", ":", "6", "1">>
TimeLetters == <<"a", "b", ":", "c", "d">>
Letters == <<"a", "b", "c">>
OffsetHHMM == <<"+", "0", "5", ":", "3", "0">>
OffsetText == <<"5", ".", "5">>

Base == [date |-> JStr(DateIso), time |-> JStr(TimeHM), lat |-> JNum(19076), lon |-> JNum(72878)]

\* A request whose every field is invalid.
BadBase ==
    [date |-> JStr(DateSlash), time |-> JStr(TimeNoColon), lat |-> JStr(Letters),
     lon |-> JNull, tz_offset |-> JNull]

Alternatives ==
    [date |-> {JStr(DateSlash), JNum(1995000), JNull},
     time |-> {JStr(TimeHMS), JStr(TimeNoColon), JStr(TimeOutOfRange), JStr(TimeLetters), JNum(12000)},
     lat |-> {JStr(Letters), JNull},
     lon |-> {JStr(Letters)},
     tz_offset |-> {JNum(5500), JNum(330000), JStr(OffsetHHMM), JStr(OffsetText), JStr(Letters), JNull}]

With(obj, k, val) == [j \in DOMAIN obj \cup {k} |-> IF j = k THEN val ELSE obj[j]]

Without(obj, ks) == [j \in DOMAIN obj \ ks |-> obj[j]]

JObj(f) == [t |-> "obj", f |-> f, v |-> 0]

RequiredSet == {Required[i] : i \in DOMAIN Required}

Objects ==
    {Base}
    \cup {With(Base, k, val) : <<k, val>> \in UNION {{<<k, val>> : val \in Alternatives[k]} : k \in DOMAIN Alternatives}}
    \cup {Without(b, ks) : <<b, ks>> \in {Base, BadBase, With(Base, "tz_offset", JNum(5500))} \X (SUBSET RequiredSet \ {{}})}

\* What the client may send: unparseable bytes, a JSON object, a JSON
\* number (5 and 0) or JSON null.
Bodies ==
    {[t |-> "malformed", f |-> <<>>, v |-> 0], [t |-> "num", f |-> <<>>, v |-> 5000],
     [t |-> "num", f |-> <<>>, v |-> 0], [t |-> "null", f |-> <<>>, v |-> 0]}
    \cup {JObj(o) : o \in Objects}

\* ---------------------------------------------------------------- provider
\* The ephemeris provider (pyswisseph) is outside the repository.  Each call
\* either raises or returns; what it returns is a function of its arguments,
\* fixed for a run by `world`.
planet_ids == <<"Sun", "Moon", "Mercury", "Venus", "Mars", "Jupiter", "Saturn", "Uranus", "Neptune", "Pluto">>

NBodies == Len(planet_ids)

\* swe.get_planet_name(pid)
get_planet_name(pid) == planet_ids[pid]

\* Raw longitudes as swe.calc_ut returns them, per world: ordinary values,
\* values outside [0, 360), values just below a multiple of 30 or 360 degrees
\* and a tiny negative value.
EphemRaw(w) ==
    IF w = 1
    THEN <<84 * Deg + Deg \div 4, 200 * Deg, 95 * Deg + 7 * Q4, 30 * Deg, 0,
           359 * Deg, 12 * Deg + 3, 271 * Deg + Deg \div 2, 150 * Deg, 299 * Deg + 5 * Q4>>
    ELSE <<360 * Deg - Q4 \div 4, 30 * Deg - Q4 \div 4, -1, 400 * Deg, -30 * Deg,
           360 * Deg, 725 * Deg + Deg \div 4, -(Q4 \div 2), 60 * Deg - Q4 \div 2, -400 * Deg - 3>>

\* Raw house cusps 1..12 and the ASC, MC of ascmc, per world.
HouseRaw(w) ==
    IF w = 1
    THEN <<10 * Deg, 40 * Deg, 70 * Deg, 100 * Deg + 5, 130 * Deg, 160 * Deg,
           190 * Deg, 220 * Deg, 250 * Deg, 280 * Deg + 5, 310 * Deg, 340 * Deg>>
    ELSE <<355 * Deg, 385 * Deg, -305 * Deg, 85 * Deg + Q4 \div 4, 115 * Deg, 145 * Deg,
           175 * Deg, 205 * Deg, 235 * Deg, 265 * Deg + 3 * Q4, 295 * Deg, 325 * Deg>>

AscmcRaw(w) ==
    IF w = 1
    THEN <<10 * Deg, 280 * Deg + 5, 0, 0, 0, 0, 0, 0, 0, 0>>
    ELSE <<355 * Deg, -95 * Deg + 3 * Q4, 0, 0, 0, 0, 0, 0, 0, 0>>

Worlds == {1, 2}

\* The cusp array in the shape of the provider build: 13 long with a dummy at
\* index 0, 12 long, or something else (5 long, empty).
\* The lengths <<cusps, ascmc>> of what a house call returns.
HouseShapes == {<<13, 10>>, <<12, 10>>, <<13, 1>>, <<12, 0>>, <<5, 10>>, <<0, 10>>, <<5, 0>>}

CuspsOf(w, n) ==
    IF n = 13 THEN <<0>> \o HouseRaw(w) ELSE SubSeq(HouseRaw(w), 1, n)

AscmcOf(w, n) == SubSeq(AscmcRaw(w), 1, n)

\* swe.julday's result: the Julian Day of its arguments.
JulianDay(y, m, d, hour) == [y |-> y, m |-> m, d |-> d, hour |-> hour]

NoJd == JulianDay(0, 0, 0, 0)

\* swe.calc_ut(jd_ut, pid)[0][0] when it returns: a float.
CalcLon(w, pid) == FRound(EphemRaw(w)[pid])

\* ------------------------------------------------------------------ state
VARIABLES
    body,       \* the bytes of the request, parsed or unparseable
    world,      \* the ephemeris the provider answers from
    pc,         \* the handler's position
    data,       \* natal: data
    inp,        \* natal: y, m, d, hour_utc, lat, lon, tz
    jd_ut,      \* natal: jd_ut
    i,          \* natal: position in planet_ids
    planets,    \* natal: planets
    houses,     \* natal: houses
    angles,     \* natal: angles
    calls,      \* the provider calls made so far, in order
    resp,       \* the HTTP response, once sent
    arg,        \* helpers alone: the angle x and the turns k applied to
    out         \* helpers alone: what norm360 and to_sign returned

vars == <<body, world, pc, data, inp, jd_ut, i, planets, houses, angles, calls, resp, arg, out>>

NoErr == Err("", <<>>)
NoResp == [status |-> 0, kind |-> "none", ok |-> FALSE, err |-> NoErr]

\* jsonify({"ok": False, "error": ...}), status
ErrorResp(status, err) == [status |-> status, kind |-> "json", ok |-> FALSE, err |-> err]

\* jsonify({"ok": True, ...}); the rest of the body is OkBody.
OkResp == [status |-> 200, kind |-> "json", ok |-> TRUE, err |-> NoErr]

\* An exception that leaves natal(): Flask answers 500 with its own HTML
\* error page, not with the handler's JSON.
UnhandledResp == [status |-> 500, kind |-> "html", ok |-> FALSE, err |-> NoErr]

None == [is_none |-> TRUE, cusps |-> <<>>]
Some(cs) == [is_none |-> FALSE, cusps |-> cs]

Empty == [k \in {} |-> 0]

\* A provider call: the function, the sub-result it is for, whether it
\* raised and, for a house call that returned, the lengths of cusps and ascmc.
Call(fn, sub, raised, shape) == [fn |-> fn, sub |-> sub, raised |-> raised, shape |-> shape]

NoShape == <<0, 0>>

NoArg == [x |-> 0, k |-> 0]
NoVal == [stage |-> 0, n |-> 0, nk |-> 0, ts |-> to_sign(0)]

Init ==
    /\ body \in Bodies
    /\ world \in Worlds
    /\ pc = "received"
    /\ data = JObj(Empty)
    /\ inp = NoInputs
    /\ jd_ut = NoJd
    /\ i = 1
    /\ planets = Empty
    /\ houses = None
    /\ angles = Empty
    /\ calls = <<>>
    /\ resp = NoResp
    /\ arg = NoArg
    /\ out = NoVal

\* ------------------------------------------------------- natal: the steps
\* A Python value that is false in `value or {}`.
Falsy(val) ==
    \/ val.t = "null"
    \/ val.t = "num" /\ val.v = 0
    \/ val.t = "obj" /\ DOMAIN val.f = {}

Finish(r) == resp' = r /\ pc' = "done"

\* data = request.get_json(force=True, silent=False) or {}
GetJson ==
    /\ pc = "received"
    /\ \/ /\ body.t = "malformed"
          /\ Finish(ErrorResp(400, Err("Invalid JSON body.", <<>>)))
          /\ UNCHANGED data
       \/ /\ body.t # "malformed"
          /\ data' = IF Falsy(body) THEN JObj(Empty) ELSE body
          /\ pc' = "validating"
          /\ UNCHANGED resp
    /\ UNCHANGED <<arg, out, body, world, inp, jd_ut, i, planets, houses, angles, calls>>

\* Mutant of ParseInputs: swe.julday is called before the parse result is
\* looked at, so a rejected request has already reached the provider.
ParseInputsAfterJulday ==
    /\ pc = "validating"
    /\ LET r == parse_inputs(data)
       IN  \/ /\ r.res = "ok"
              /\ inp' = r.inp
              /\ pc' = "julday"
              /\ UNCHANGED <<resp, calls>>
           \/ /\ r.res = "ValueError"
              /\ calls' = Append(calls, Call("julday", "jd", FALSE, NoShape))
              /\ Finish(ErrorResp(400, r.err))
              /\ UNCHANGED inp
           \/ /\ r.res = "TypeError"
              /\ calls' = Append(calls, Call("julday", "jd", FALSE, NoShape))
              /\ Finish(UnhandledResp)
              /\ UNCHANGED inp
    /\ UNCHANGED <<arg, out, body, world, data, jd_ut, i, planets, houses, angles>>

\* y, m, d, hour_utc, lat, lon, tz = parse_inputs(data), under
\* `except ValueError`.
ParseInputs ==
    /\ pc = "validating"
    /\ LET r == parse_inputs(data)
       IN  \/ /\ r.res = "ok"
              /\ inp' = r.inp
              /\ pc' = "julday"
              /\ UNCHANGED resp
           \/ /\ r.res = "ValueError"
              /\ Finish(ErrorResp(400, r.err))
              /\ UNCHANGED inp
           \/ /\ r.res = "TypeError"
              /\ Finish(UnhandledResp)
              /\ UNCHANGED inp
    /\ UNCHANGED <<arg, out, body, world, data, jd_ut, i, planets, houses, angles, calls>>

\* jd_ut = swe.julday(y, m, d, hour_utc)
Julday ==
    /\ pc = "julday"
    /\ \E raised \in BOOLEAN :
          /\ calls' = Append(calls, Call("julday", "jd", raised, NoShape))
          /\ IF raised
             THEN /\ Finish(ErrorResp(500, Err("julday failed: ", <<>>)))
                  /\ UNCHANGED jd_ut
             ELSE /\ jd_ut' = JulianDay(inp.y, inp.m, inp.d, inp.hour_utc)
                  /\ pc' = "planets"
                  /\ UNCHANGED resp
    /\ UNCHANGED <<arg, out, body, world, data, inp, i, planets, houses, angles>>

PlanetError == [error |-> TRUE, lon |-> 0, sign |-> "", deg_in_sign |-> 0]

\* The body of the loop's try block once calc_ut has returned raw.
PlanetEntry(raw) ==
    LET lon_ecl == norm360(raw)
        ts == to_sign(lon_ecl)
    IN  IF ts.ok
        THEN [error |-> FALSE, lon |-> Round4(lon_ecl), sign |-> ts.sign,
              deg_in_sign |-> Round4(ts.deg)]
        ELSE PlanetError

\* Mutant of RecordBody: the except branch records nothing.
RecordBodyDropFailed(ps, pid, raised, raw) ==
    IF raised THEN ps ELSE With(ps, get_planet_name(pid), PlanetEntry(raw))

\* The try/except of the loop body: planets[name] is set on either path.
RecordBody(ps, pid, raised, raw) ==
    With(ps, get_planet_name(pid), IF raised THEN PlanetError ELSE PlanetEntry(raw))

\* Mutant of CalcBody: a body whose calc_ut raised is asked for again.
CalcBodyRetry ==
    /\ pc = "planets"
    /\ \E raised \in BOOLEAN :
          /\ calls' = Append(calls, Call("calc_ut", get_planet_name(i), raised, NoShape))
          /\ planets' = RecordBody(planets, i, raised, CalcLon(world, i))
          /\ i' = IF raised THEN i ELSE i + 1
          /\ pc' = IF i' > NBodies THEN "houses_ex" ELSE "planets"
    /\ UNCHANGED <<arg, out, body, world, data, inp, jd_ut, houses, angles, resp>>

\* One pass of `for pid in planet_ids`.
CalcBody ==
    /\ pc = "planets"
    /\ \E raised \in BOOLEAN :
          /\ calls' = Append(calls, Call("calc_ut", get_planet_name(i), raised, NoShape))
          /\ planets' = RecordBody(planets, i, raised, CalcLon(world, i))
    /\ i' = i + 1
    /\ pc' = IF i = NBodies THEN "houses_ex" ELSE "planets"
    /\ UNCHANGED <<arg, out, body, world, data, inp, jd_ut, houses, angles, resp>>

_normalize_cusps(raw) ==
    IF raw = <<>> THEN None
    ELSE IF Len(raw) >= 13 THEN Some([k \in 1..12 |-> Round4(norm360(raw[k + 1]))])
    ELSE IF Len(raw) = 12 THEN Some([k \in 1..12 |-> Round4(norm360(raw[k]))])
    ELSE None

AngleError(msg) == [error |-> msg, lon |-> 0, sign |-> "", deg_in_sign |-> 0]

\* One of out["ASC"], out["MC"].
AngleEntry(lon) ==
    LET ts == to_sign(lon)
    IN  [error |-> "", lon |-> lon, sign |-> ts.sign, deg_in_sign |-> Round4(ts.deg)]

\* _angles_from_ascmc(raw) when to_sign raises nothing.
_angles_from_ascmc(raw) ==
    IF raw = <<>> THEN [k \in {"error"} |-> AngleError("ascmc unavailable")]
    ELSE [k \in (IF Len(raw) > 1 THEN {"ASC", "MC"} ELSE {"ASC"}) |->
             AngleEntry(norm360(raw[IF k = "ASC" THEN 1 ELSE 2]))]

\* Whether a to_sign call of _angles_from_ascmc raises.
AnglesRaise(raw) ==
    \E k \in 1..Len(raw) : k <= 2 /\ ~to_sign(norm360(raw[k])).ok

HouseFailure(msg) == [houses |-> None, angles |-> [k \in {"error"} |-> AngleError(msg)]]

\* Mutant of HouseResult: cusps of an unexpected shape raise nothing, so
\* the angles stay as computed beside houses = None.
HouseResultNoRaise(cusps, ascmc) ==
    IF AnglesRaise(ascmc) THEN HouseFailure("list index out of range")
    ELSE [houses |-> _normalize_cusps(cusps), angles |-> _angles_from_ascmc(ascmc)]

\* Lines 182-190: what the outer try leaves in houses and angles once a
\* provider call has returned (cusps, ascmc).
HouseResult(cusps, ascmc) ==
    IF AnglesRaise(ascmc) THEN HouseFailure("list index out of range")
    ELSE IF _normalize_cusps(cusps).is_none
         THEN HouseFailure("House cusps array had unexpected length/shape.")
    ELSE [houses |-> _normalize_cusps(cusps), angles |-> _angles_from_ascmc(ascmc)]

\* The summary and the 200 response, after the houses block.
Respond(hr) ==
    /\ houses' = hr.houses
    /\ angles' = hr.angles
    /\ Finish(OkResp)

\* cusps, ascmc = swe.houses_ex(jd_ut, swe.FLG_SWIEPH, lat, lon, b'P')
HousesEx ==
    /\ pc = "houses_ex"
    /\ \/ /\ calls' = Append(calls, Call("houses_ex", "houses", TRUE, NoShape))
          /\ pc' = "houses"
          /\ UNCHANGED <<houses, angles, resp>>
       \/ \E sh \in HouseShapes :
             /\ calls' = Append(calls, Call("houses_ex", "houses", FALSE, sh))
             /\ Respond(HouseResult(CuspsOf(world, sh[1]), AscmcOf(world, sh[2])))
    /\ UNCHANGED <<arg, out, body, world, data, inp, jd_ut, i, planets>>

\* except Exception: cusps, ascmc = swe.houses(jd_ut, lat, lon, b'P')
Houses ==
    /\ pc = "houses"
    /\ \/ /\ calls' = Append(calls, Call("houses", "houses", TRUE, NoShape))
          /\ Respond(HouseFailure("swe.houses raised"))
       \/ \E sh \in HouseShapes :
             /\ calls' = Append(calls, Call("houses", "houses", FALSE, sh))
             /\ Respond(HouseResult(CuspsOf(world, sh[1]), AscmcOf(world, sh[2])))
    /\ UNCHANGED <<arg, out, body, world, data, inp, jd_ut, i, planets>>

Next == GetJson \/ ParseInputs \/ Julday \/ CalcBody \/ HousesEx \/ Houses

Spec == Init /\ [][Next]_vars

\* ---------------------------------------------------- the response's body
\* planets.get(name, {}).get("sign")
SignOf(name) ==
    IF name \in DOMAIN planets /\ ~planets[name].error THEN planets[name].sign ELSE "None"

\* The JSON body of the 200 response.
OkBody ==
    [ok |-> TRUE,
     meta |-> [jd_ut |-> jd_ut, tz_offset_hours |-> inp.tz],
     planets |-> planets,
     houses |-> houses,
     angles |-> angles,
     summary |-> [sun_sign |-> SignOf("Sun"), moon_sign |-> SignOf("Moon"),
                  asc_sign |-> IF "ASC" \in DOMAIN angles THEN angles["ASC"].sign ELSE "None"]]

\* ------------------------------------------------- the helpers on their own
\* norm360 and to_sign applied to angles chosen freely: every sample is a
\* float (FRound of a real), and so is x + 360k where it is used.
MaxTurns == 2

AngleSamples ==
    {FRound(v) : v \in
        {0, 1, -1, -2, -3, -(Q4 \div 2), -Q4, Deg \div 2, -(Deg \div 2),
         15 * Deg + Deg \div 2, 30 * Deg, 30 * Deg - 1, 90 * Deg, -30 * Deg,
         179 * Deg + 7, 270 * Deg + Q4, 359 * Deg, 360 * Deg - 8, 360 * Deg,
         -360 * Deg, 400 * Deg, 390 * Deg + Deg \div 4, -400 * Deg - 4}}

InitHelpers ==
    /\ body = [t |-> "null", f |-> <<>>, v |-> 0]
    /\ world = 1
    /\ pc = "helpers"
    /\ data = JObj(Empty)
    /\ inp = NoInputs
    /\ jd_ut = NoJd
    /\ i = 1
    /\ planets = Empty
    /\ houses = None
    /\ angles = Empty
    /\ calls = <<>>
    /\ resp = NoResp
    /\ arg \in [x : AngleSamples, k : (-MaxTurns)..MaxTurns]
    /\ out = NoVal

\* x + 360.0 * k, a float addition.
Turned(x, k) == FRound(x + k * 360 * Deg)

ApplyNorm360 ==
    /\ pc = "helpers"
    /\ out.stage = 0
    /\ out' = [out EXCEPT !.stage = 1, !.n = norm360(arg.x), !.nk = norm360(Turned(arg.x, arg.k))]
    /\ UNCHANGED <<body, world, pc, data, inp, jd_ut, i, planets, houses, angles, calls, resp, arg>>

ApplyToSign ==
    /\ pc = "helpers"
    /\ out.stage = 1
    /\ out' = [out EXCEPT !.stage = 2, !.ts = to_sign(arg.x)]
    /\ UNCHANGED <<body, world, pc, data, inp, jd_ut, i, planets, houses, angles, calls, resp, arg>>

NextHelpers == ApplyNorm360 \/ ApplyToSign

SpecHelpers == InitHelpers /\ [][NextHelpers]_vars

\* ----------------------------------------------------------------- claims
Done == pc = "done"

\* The request Base with field k set to v.
Req(k, v) == JObj(With(Base, k, v))

BodyNames == {planet_ids[n] : n \in 1..NBodies}
SignNames == {SIGNS[n] : n \in DOMAIN SIGNS}

CallsOf(fn, sub) == {n \in DOMAIN calls : calls[n].fn = fn /\ calls[n].sub = sub}
RaisedFor(b) == \E n \in CallsOf("calc_ut", b) : calls[n].raised
JdObtained == calls # <<>> /\ ~calls[1].raised
LastCall == calls[Len(calls)]
HouseCallMade == calls # <<>> /\ LastCall.sub = "houses"

\* C1: a JSON object lacking some of date, time, lat, lon is answered 400,
\* ok:false, with a message that names every missing key.
C1_MissingFieldsAllNamed ==
    (Done /\ body.t = "obj" /\ RequiredSet \ DOMAIN body.f # {})
    => /\ resp.status = 400 /\ resp.kind = "json" /\ ~resp.ok
       /\ resp.err.text = "Missing required field(s): "
       /\ {resp.err.fields[n] : n \in DOMAIN resp.err.fields} = RequiredSet \ DOMAIN body.f
       /\ Len(resp.err.fields) = Cardinality(RequiredSet \ DOMAIN body.f)

C1_Witness ==
    /\ Done
    /\ body = JObj(Without(BadBase, {"date", "time", "lon"}))
    /\ resp.status = 400
    /\ resp.err.fields = <<"date", "time", "lon">>

\* C2: validation is over before the first provider call, and a request
\* that ends in a validation error has made no provider call.
C2_FailFast ==
    /\ calls # <<>> => (pc \notin {"received", "validating"} /\ body.t # "malformed")
    /\ Len(calls) = 1 => (parse_inputs(data).res = "ok" /\ inp = parse_inputs(data).inp)
    /\ (resp.status = 400 \/ resp.kind = "html") => calls = <<>>

C2_Witness ==
    /\ Done
    /\ body = Req("lat", JStr(Letters))
    /\ resp.status = 400
    /\ calls = <<>>

\* C3: with a Julian Day obtained, whichever bodies' calc_ut raises, all ten
\* bodies are queried, planets has an entry for each (an error marker for
\* exactly the failing ones, a position for the others) and the answer is 200.
C3_PerBodyIsolation ==
    (Done /\ JdObtained)
    => /\ resp.status = 200 /\ resp.ok /\ resp.kind = "json"
       /\ DOMAIN OkBody.planets = BodyNames
       /\ \A n \in 1..NBodies :
             /\ calls[n + 1].fn = "calc_ut" /\ calls[n + 1].sub = planet_ids[n]
             /\ planets[planet_ids[n]].error <=> calls[n + 1].raised
             /\ ~planets[planet_ids[n]].error => planets[planet_ids[n]].sign \in SignNames
       /\ \A n \in DOMAIN calls : n > NBodies + 1 => calls[n].fn # "calc_ut"

C3_Witness ==
    /\ Done
    /\ JdObtained
    /\ {b \in BodyNames : RaisedFor(b)} = {"Sun", "Mars", "Pluto"}
    /\ resp.status = 200
    /\ planets["Sun"].error /\ ~planets["Moon"].error

\* The house computation failed as a unit: the last house call raised, or
\* it returned cusps that are neither 12 nor 13 long.
HouseUnitFailed == HouseCallMade /\ (LastCall.raised \/ LastCall.shape[1] \notin {12, 13})

C4_Inv ==
    (Done /\ HouseCallMade)
    => /\ resp.status = 200 /\ resp.ok
       /\ HouseUnitFailed => (houses.is_none /\ DOMAIN angles = {"error"})
       /\ ~HouseUnitFailed => (~houses.is_none /\ Len(houses.cusps) = 12)
       /\ houses.is_none => "error" \in DOMAIN angles
       /\ DOMAIN planets = BodyNames

\* C4 (amended): a failed house computation sets houses to null and angles to
\* an error entry, leaves planets as they were and still answers 200; in
\* every 200 response houses is null only if angles carries an error entry.
C4_HouseFailureIsAUnit ==
    /\ []C4_Inv
    /\ [][(pc \in {"houses_ex", "houses"}) => (planets' = planets)]_vars

C4_Witness ==
    /\ Done
    /\ HouseCallMade
    /\ LastCall.fn = "houses_ex" /\ LastCall.shape = <<5, 10>>
    /\ houses.is_none
    /\ DOMAIN angles = {"error"}
    /\ ~planets["Sun"].error
    /\ resp.status = 200

\* C4 as claimed: in every 200 response houses is an error indicator
\* exactly when angles is.
C4_Original ==
    resp.status = 200 => (houses.is_none <=> "error" \in DOMAIN angles)

\* C5: every request ends with 200 ok:true, 400 or 500 with the JSON body
\* {ok:false, error}; 400 only before any computation, 500 only for a
\* request whose validation succeeded.
C5_RequestStateMachine ==
    Done =>
       /\ resp.status \in {200, 400, 500}
       /\ resp.status = 200 => (resp.ok /\ resp.kind = "json")
       /\ resp.status # 200 => (resp.kind = "json" /\ ~resp.ok /\ resp.err.text # "")
       /\ resp.status = 400 => calls = <<>>
       /\ resp.status = 500 => (body.t # "malformed" /\ parse_inputs(data).res = "ok")

\* The inputs and the Julian Day of 03:15 local time, 5.5 hours east.
InputsAt0530 ==
    [y |-> 1995, m |-> 6, d |-> 15, hour_utc |-> (3 * 60 + 15 - 330) * (HourUnit \div 60),
     lat |-> 19076, lon |-> 72878, tz |-> 5500]

JdAt0530 == JulianDay(1995, 6, 15, (3 * 60 + 15 - 330) * (HourUnit \div 60))

\* C6 (amended): the offset as the text "5.5" and as the number 5.5 (hours)
\* both pass validation with the same inputs and the same Julian Day, that
\* of local time less 5.5 hours; "+05:30" is answered 400 and the number 330
\* is taken as 330 hours.
C6_OffsetFormats ==
    /\ (body \in {Req("tz_offset", JStr(OffsetText)), Req("tz_offset", JNum(5500))}
        /\ pc \notin {"received", "validating"})
       => /\ inp = InputsAt0530
          /\ resp.status # 400
          /\ JdObtained => (jd_ut = JdAt0530 /\ OkBody.meta = [jd_ut |-> JdAt0530, tz_offset_hours |-> 5500])
          /\ (Done /\ JdObtained) => resp.status = 200
    /\ (body = Req("tz_offset", JStr(OffsetHHMM)) /\ Done) => resp.status = 400
    /\ (body = Req("tz_offset", JNum(330000)) /\ JdObtained)
       => jd_ut.hour = (3 * 60 + 15 - 330 * 60) * (HourUnit \div 60)

C6_Witness ==
    /\ Done
    /\ body = Req("tz_offset", JStr(OffsetText))
    /\ resp.status = 200
    /\ jd_ut = JdAt0530

\* C6 as claimed: with "+05:30" and with 330 the request succeeds, with the
\* Julian Day of local time less five and a half hours.
C6_Original ==
    (Done /\ body \in {Req("tz_offset", JStr(OffsetHHMM)), Req("tz_offset", JNum(330000))}
     /\ ~(calls # <<>> /\ calls[1].raised))
    => (resp.status = 200 /\ jd_ut = JdAt0530)

\* The requests that differ from Base in the time field alone.
TimeRequests == {JObj(Base)} \cup {Req("time", v) : v \in Alternatives["time"]}

Unsigned(s) == s # <<>> /\ \A n \in DOMAIN s : s[n] \in Digits

IntLiteral(s) ==
    \/ Unsigned(Strip(s))
    \/ Len(Strip(s)) >= 2 /\ Strip(s)[1] \in {"+", "-"} /\ Unsigned(Tail(Strip(s)))

\* s is two integer literals with a single colon between them.
TwoIntegers(s) ==
    \E c \in DOMAIN s :
       /\ s[c] = ":"
       /\ \A q \in DOMAIN s : s[q] = ":" => q = c
       /\ IntLiteral(SubSeq(s, 1, c - 1))
       /\ IntLiteral(SubSeq(s, c + 1, Len(s)))

ColonAt(s) == CHOOSE c \in DOMAIN s : s[c] = ":"

TimeError == ErrorResp(400, Err("Invalid 'time' format. Use HH:MM (24h).", <<>>))

\* C7 (amended): a time is accepted exactly when it is two integers
\* separated by one colon (HH:MM:SS is rejected, no range is checked); the
\* UT hour passed on is hour + minute/60 less the offset; any other time is
\* answered 400 with the time-format message.
C7_TimeParsing ==
    (body \in TimeRequests /\ pc \notin {"received", "validating"})
    => LET s == PyStr(body.f["time"])
       IN  IF TwoIntegers(s)
           THEN /\ resp.status # 400
                /\ inp.hour_utc =
                      ParseInt(SubSeq(s, 1, ColonAt(s) - 1)).v * HourUnit
                      + ParseInt(SubSeq(s, ColonAt(s) + 1, Len(s))).v * (HourUnit \div 60)
                /\ \A n \in CallsOf("julday", "jd") : ~calls[n].raised => jd_ut.hour = inp.hour_utc
           ELSE Done /\ resp = TimeError /\ calls = <<>>

C7_Witness ==
    /\ Done
    /\ body = Req("time", JStr(TimeOutOfRange))
    /\ resp.status = 200
    /\ jd_ut.hour = 25 * HourUnit + 61 * (HourUnit \div 60)

TwoDigits(s, n) == s[n] \in Digits /\ s[n + 1] \in Digits
Num2(s, n) == 10 * DigitVal(s[n]) + DigitVal(s[n + 1])

IsHHMM(s) ==
    /\ Len(s) = 5 /\ TwoDigits(s, 1) /\ s[3] = ":" /\ TwoDigits(s, 4)
    /\ Num2(s, 1) < 24 /\ Num2(s, 4) < 60

IsHHMMSS(s) ==
    /\ Len(s) = 8 /\ TwoDigits(s, 1) /\ s[3] = ":" /\ TwoDigits(s, 4) /\ s[6] = ":" /\ TwoDigits(s, 7)
    /\ Num2(s, 1) < 24 /\ Num2(s, 4) < 60 /\ Num2(s, 7) < 60

\* C7 as claimed: accepted exactly when HH:MM or HH:MM:SS (24-hour), with
\* UT hour = hour + minute/60 + second/3600 less the offset.
C7_Original ==
    (body \in TimeRequests /\ pc \notin {"received", "validating"})
    => LET s == PyStr(body.f["time"])
       IN  IF IsHHMM(s) \/ IsHHMMSS(s)
           THEN /\ resp.status # 400
                /\ inp.hour_utc =
                      Num2(s, 1) * HourUnit + Num2(s, 4) * (HourUnit \div 60)
                      + (IF IsHHMMSS(s) THEN Num2(s, 7) * (HourUnit \div 3600) ELSE 0)
           ELSE Done /\ resp = TimeError

\* C8 (amended): no provider function is called twice for a sub-result; the
\* one second attempt at a sub-result is the single call of swe.houses that
\* follows a swe.houses_ex that raised; a failure of julday, of calc_ut for
\* a body or of swe.houses is final and shows in the response.
C8_NoRetry ==
    /\ \A m, n \in DOMAIN calls :
          (m < n /\ calls[m].sub = calls[n].sub)
          => /\ calls[m].fn = "houses_ex" /\ calls[m].raised
             /\ calls[n].fn = "houses" /\ n = m + 1
    /\ \A n \in DOMAIN calls :
          /\ (calls[n].fn = "julday" /\ calls[n].raised)
             => (n = Len(calls) /\ Done /\ resp = ErrorResp(500, Err("julday failed: ", <<>>)))
          /\ (calls[n].fn = "calc_ut" /\ calls[n].raised) => planets[calls[n].sub].error
          /\ (calls[n].fn = "houses" /\ calls[n].raised)
             => (n = Len(calls) /\ Done /\ houses.is_none /\ DOMAIN angles = {"error"})

C8_Witness ==
    /\ Done
    /\ Len(calls) = NBodies + 3
    /\ calls[NBodies + 2] = Call("houses_ex", "houses", TRUE, NoShape)
    /\ calls[NBodies + 3] = Call("houses", "houses", TRUE, NoShape)
    /\ RaisedFor("Venus")
    /\ resp.status = 200

\* C8 as claimed: once a provider call for a sub-result has failed, no
\* further provider call is made for that sub-result.
C8_Original ==
    \A m, n \in DOMAIN calls : (m < n /\ calls[m].raised) => calls[n].sub # calls[m].sub

InRange(v, hi) == 0 <= v /\ v < hi

PositionInRange(e) ==
    InRange(e.lon, 360 * Deg) /\ e.sign \in SignNames /\ InRange(e.deg_in_sign, 30 * Deg)

\* C9: in every 200 response each computed planet and each of ASC, MC has
\* lon in [0,360), one of the twelve signs and deg_in_sign in [0,30); houses
\* is null or the twelve cusps of houses 1..12 in order, each in [0,360),
\* for a 12-long and for a 13-long cusp array alike.
C9_ValueRanges ==
    resp.status = 200
    => /\ \A b \in DOMAIN planets : ~planets[b].error => PositionInRange(planets[b])
       /\ \A a \in DOMAIN angles \ {"error"} : PositionInRange(angles[a])
       /\ ~houses.is_none
          => /\ Len(houses.cusps) = 12
             /\ \A k \in 1..12 :
                   /\ InRange(houses.cusps[k], 360 * Deg)
                   /\ 2 * Abs(houses.cusps[k] - (HouseRaw(world)[k] % (360 * Deg))) <= Q4

\* C10: norm360(x) is in [0,360) and norm360(x + 360k) = norm360(x);
\* to_sign(x) names the sign at index floor(norm360(x)/30), with degrees
\* within the sign in [0,30) and index*30 + degrees = norm360(x).
C10_AngleNormalizer ==
    /\ out.stage >= 1
       => /\ InRange(out.n, 360 * Deg)
          /\ (Turned(arg.x, arg.k) = arg.x + arg.k * 360 * Deg) => out.nk = out.n
    /\ out.stage = 2
       => /\ out.ts.ok
          /\ out.ts.idx = out.n \div (30 * Deg)
          /\ out.ts.sign = SIGNS[out.ts.idx + 1]
          /\ (out.n < 30 * Deg) => out.ts.sign = "Aries"
          /\ InRange(out.ts.deg, 30 * Deg)
          /\ out.ts.idx * 30 * Deg + out.ts.deg = out.n

====
